---- MODULE Spec2Model ----
(***************************************************************************)
(* Multipart upload of the file-management demo: the browser uploader      *)
(* (uploadFileSimple / uploadFileMultipart of the FileUploader component)  *)
(* and the /api/multipart-upload endpoint (POST, PUT, DELETE handlers) in  *)
(* front of the object-storage bucket.                                     *)
(***************************************************************************)
EXTENDS Integers, Naturals, Sequences, FiniteSets, TLC

\* ------------------------------------------------------------------------
\* Bounds of the model
\* ------------------------------------------------------------------------
\* file sizes go up to MaxMiB mebibytes (plus one byte)
MaxMiB == 12
\* number of multipart sessions the bucket hands out in one behaviour
MaxSessions == 2
\* depth of synchronous calls between the two upload functions before the
\* JavaScript engine reports a stack overflow
MaxDepth == 3
\* number of parts stored through direct calls of the endpoint
MaxEtag == 2
\* number of times the proxy in front of /api/upload answers 413
Max413 == 2
\* attempts that are on their way to the endpoint at the same time after
\* they timed out at the browser
MaxLate == 1
\* uploads of the same file started one after the other
MaxUploads == 2
\* number of different file contents uploaded through /api/upload
MaxContent == 2
\* length of the custom key typed into the upload form
MaxKeyLen == 3

\* ------------------------------------------------------------------------
\* Program constants
\* ------------------------------------------------------------------------
MiB == 1024 * 1024
\* uploadFileSimple: files above this size are handed to uploadFileMultipart
FILE_SIZE_THRESHOLD == 1 * 1024 * 1024
\* uploadFileMultipart: part size, and the smallest file it accepts
CHUNK_SIZE == 5 * 1024 * 1024
\* a retry budget that is one attempt too large
RETRIES_Four == 3 + 1
\* uploadFileMultipart: attempts per part ("let retries = 3")
RETRIES == 3

\* absent parameter / null / undefined
NoId == 0
\* the text "undefined", which URLSearchParams.set writes for an undefined
\* uploadId; it is a non-empty string that names no session
UndefinedStr == 0 - 1
NoKey == ""
NoEtag == 0

\* ------------------------------------------------------------------------
\* Inputs
\* ------------------------------------------------------------------------
\* file.size: the whole MiB counts up to MaxMiB, and the sizes one byte
\* below and above the threshold and each multiple of the chunk size
FileSizes ==
    {s \in {k * MiB : k \in 0..MaxMiB}
            \cup {FILE_SIZE_THRESHOLD + d : d \in {0 - 1, 1}}
            \cup {c * CHUNK_SIZE + d :
                     c \in 0..(MaxMiB \div 5), d \in {0 - 1, 1}} : s > 0}
Keys == {"k1", "k2"}

Max(a, b) == IF a > b THEN a ELSE b
Min(a, b) == IF a < b THEN a ELSE b

\* Math.ceil(a / b) for positive integers
Ceil(a, b) == (a + b - 1) \div b

MaxPartNo == Ceil(MaxMiB * MiB + 1, CHUNK_SIZE)
PartNos == 1..MaxPartNo
SessionIds == 1..MaxSessions

\* ------------------------------------------------------------------------
\* parseInt (ECMAScript), on strings given as sequences of characters
\* ------------------------------------------------------------------------
DigitChars == <<"0", "1", "2", "3", "4", "5", "6", "7", "8", "9">>
IsDigit(c) == \E k \in 1..Len(DigitChars) : DigitChars[k] = c
DigitVal(c) == (CHOOSE k \in 1..Len(DigitChars) : DigitChars[k] = c) - 1

\* first position at or after k that holds no white space
RECURSIVE SkipSpace(_, _)
SkipSpace(s, k) ==
    IF k <= Len(s) /\ s[k] = " " THEN SkipSpace(s, k + 1) ELSE k

\* value of the run of decimal digits that starts at position k
RECURSIVE ReadDigits(_, _, _)
ReadDigits(s, k, acc) ==
    IF k <= Len(s) /\ IsDigit(s[k])
    THEN ReadDigits(s, k + 1, acc * 10 + DigitVal(s[k]))
    ELSE acc

\* parseInt(s): optional white space, optional sign, then the longest run
\* of digits; NaN when there is no digit at that place
ParseInt(s) ==
    LET k0   == SkipSpace(s, 1)
        neg  == k0 <= Len(s) /\ s[k0] = "-"
        k1   == IF k0 <= Len(s) /\ s[k0] \in {"-", "+"} THEN k0 + 1 ELSE k0
    IN  IF k1 <= Len(s) /\ IsDigit(s[k1])
        THEN [nan |-> FALSE,
              val |-> IF neg THEN 0 - ReadDigits(s, k1, 0)
                             ELSE ReadDigits(s, k1, 0)]
        ELSE [nan |-> TRUE, val |-> 0]

\* ------------------------------------------------------------------------
\* The bucket (object storage collaborator)
\* ------------------------------------------------------------------------
NoParts == [n \in PartNos |-> NoEtag]
AbsentSession == [key |-> NoKey, state |-> "absent", parts |-> NoParts]
EmptyBucket ==
    [sessions |-> [u \in SessionIds |-> AbsentSession],
     objects  |-> [k \in Keys |-> NoId],
     nextId   |-> 1,
     nextEtag |-> 1]

\* the session a handle of resumeMultipartUpload(key, uploadId) refers to is
\* usable when it was created under that key and is neither completed nor
\* aborted; resumeMultipartUpload itself checks nothing
SessionOpen(b, key, uploadId) ==
    /\ uploadId \in SessionIds
    /\ b.sessions[uploadId].state = "open"
    /\ b.sessions[uploadId].key = key

\* bucket.createMultipartUpload(key, meta): a fresh session; the handler
\* sees the call throw once the bucket has handed out MaxSessions sessions
R2Create(b, key) ==
    [b EXCEPT !.sessions[b.nextId] =
                  [key |-> key, state |-> "open", parts |-> NoParts],
              !.nextId = b.nextId + 1]

\* multipartUpload.uploadPart(n, bytes) succeeds on a usable session
R2UploadPartOk(b, key, uploadId, n) ==
    SessionOpen(b, key, uploadId) /\ n \in PartNos

R2UploadPart(b, key, uploadId, n) ==
    [b EXCEPT !.sessions[uploadId].parts[n] = b.nextEtag,
              !.nextEtag = b.nextEtag + 1]

\* multipartUpload.complete(parts) succeeds when parts is a non-empty list
\* of stored parts with their etags, in increasing part number order
R2CompleteOk(b, key, uploadId, parts) ==
    /\ SessionOpen(b, key, uploadId)
    /\ parts.kind = "list"
    /\ Len(parts.list) > 0
    /\ \A j \in 1..Len(parts.list) :
          /\ parts.list[j].partNumber \in PartNos
          /\ parts.list[j].etag # NoEtag
          /\ b.sessions[uploadId].parts[parts.list[j].partNumber]
                = parts.list[j].etag
          /\ j > 1 => parts.list[j - 1].partNumber < parts.list[j].partNumber

\* the object written under the key is identified by the session it is from
R2Complete(b, key, uploadId) ==
    [b EXCEPT !.sessions[uploadId].state = "completed",
              !.objects[key] = uploadId]

R2AbortOk(b, key, uploadId) == SessionOpen(b, key, uploadId)

R2Abort(b, key, uploadId) ==
    [b EXCEPT !.sessions[uploadId].state = "aborted",
              !.sessions[uploadId].parts = NoParts]

\* ------------------------------------------------------------------------
\* /api/multipart-upload: the request handlers
\* ------------------------------------------------------------------------
\* A request: method, whether isAuthenticated(request) holds, the query
\* parameters (action, uploadId, partNumber, key), the content type, the
\* fields of a multipart/form-data body, the members of a JSON body and
\* whether it parses, and whether there is a body at all.
NoParam == <<>>
NoPartsField == [kind |-> "missing", list |-> <<>>]
PartsList(l) == [kind |-> "list", list |-> l]

\* API.error(message, request, status): a JSON body without result fields
ApiError(status, b, calls) ==
    [status |-> status, json |-> TRUE, uploadId |-> NoId, etag |-> NoEtag,
     partNumber |-> 0, bucket |-> b, calls |-> calls]

\* API.success({success: true, ...}, request)
ApiSuccess(uploadId, partNumber, etag, b, calls) ==
    [status |-> 200, json |-> TRUE, uploadId |-> uploadId, etag |-> etag,
     partNumber |-> partNumber, bucket |-> b, calls |-> calls]

\* parseRequestData answers the parsed JSON body; it throws when the content
\* type is not application/json or the body is not JSON
ParseRequestDataThrows(req) == req.ctype # "json" \/ ~req.jsonOk

\* a catch block that answers success where uploadPart threw
HandleUploadPart_MasksError(req, b, bound) ==
    IF ~req.auth THEN ApiError(401, b, {})
    ELSE IF ~bound THEN ApiError(500, b, {})
    ELSE IF req.action # "upload-part" THEN ApiError(400, b, {})
    ELSE
    LET incomplete == req.qUploadId = NoId \/ req.qPartNumber = NoParam
                      \/ req.qKey = NoKey
        \* request.formData() is reached, and it consumes the body
        readsForm == incomplete /\ req.ctype = "form"
        formOk    == readsForm /\ req.hasBody
        uploadId  == IF formOk /\ req.qUploadId = NoId
                     THEN req.fUploadId ELSE req.qUploadId
        partNumberStr == IF formOk /\ req.qPartNumber = NoParam
                         THEN req.fPartNumber ELSE req.qPartNumber
        key       == IF formOk /\ req.qKey = NoKey
                     THEN req.fKey ELSE req.qKey
        parsed    == ParseInt(partNumberStr)
    IN  IF uploadId = NoId \/ partNumberStr = NoParam \/ key = NoKey
        THEN ApiError(400, b, {})
        ELSE IF parsed.nan \/ parsed.val < 1 THEN ApiError(400, b, {})
        ELSE IF ~req.hasBody THEN ApiError(400, b, {})
        \* request.arrayBuffer() throws when the body was consumed already
        ELSE IF formOk
        THEN ApiError(400, b, {"resumeMultipartUpload"})
        ELSE IF R2UploadPartOk(b, key, uploadId, parsed.val)
        THEN ApiSuccess(NoId, parsed.val, b.nextEtag,
                        R2UploadPart(b, key, uploadId, parsed.val),
                        {"resumeMultipartUpload", "uploadPart"})
        ELSE ApiSuccess(NoId, parsed.val, NoEtag, b,
                        {"resumeMultipartUpload", "uploadPart"})
\* handleUploadPart(request, locals)
HandleUploadPart(req, b, bound) ==
    IF ~req.auth THEN ApiError(401, b, {})
    ELSE IF ~bound THEN ApiError(500, b, {})
    ELSE IF req.action # "upload-part" THEN ApiError(400, b, {})
    ELSE
    LET incomplete == req.qUploadId = NoId \/ req.qPartNumber = NoParam
                      \/ req.qKey = NoKey
        \* request.formData() is reached, and it consumes the body
        readsForm == incomplete /\ req.ctype = "form"
        formOk    == readsForm /\ req.hasBody
        uploadId  == IF formOk /\ req.qUploadId = NoId
                     THEN req.fUploadId ELSE req.qUploadId
        partNumberStr == IF formOk /\ req.qPartNumber = NoParam
                         THEN req.fPartNumber ELSE req.qPartNumber
        key       == IF formOk /\ req.qKey = NoKey
                     THEN req.fKey ELSE req.qKey
        parsed    == ParseInt(partNumberStr)
    IN  IF uploadId = NoId \/ partNumberStr = NoParam \/ key = NoKey
        THEN ApiError(400, b, {})
        ELSE IF parsed.nan \/ parsed.val < 1 THEN ApiError(400, b, {})
        ELSE IF ~req.hasBody THEN ApiError(400, b, {})
        \* request.arrayBuffer() throws when the body was consumed already
        ELSE IF formOk
        THEN ApiError(400, b, {"resumeMultipartUpload"})
        ELSE IF R2UploadPartOk(b, key, uploadId, parsed.val)
        THEN ApiSuccess(NoId, parsed.val, b.nextEtag,
                        R2UploadPart(b, key, uploadId, parsed.val),
                        {"resumeMultipartUpload", "uploadPart"})
        ELSE ApiError(400, b, {"resumeMultipartUpload", "uploadPart"})

\* export const POST
HandlePOST(req, b, bound) ==
    IF ~req.auth THEN ApiError(401, b, {})
    ELSE IF ~bound THEN ApiError(500, b, {})
    ELSE IF req.action = "" THEN ApiError(400, b, {})
    ELSE IF req.action = "create"
    THEN IF ParseRequestDataThrows(req) THEN ApiError(500, b, {})
         ELSE IF req.jKey = NoKey THEN ApiError(400, b, {})
         ELSE IF b.nextId \in SessionIds
         THEN ApiSuccess(b.nextId, 0, NoEtag, R2Create(b, req.jKey),
                         {"createMultipartUpload"})
         ELSE ApiError(500, b, {"createMultipartUpload"})
    ELSE IF req.action = "get-upload-url"
    THEN IF ParseRequestDataThrows(req) THEN ApiError(500, b, {})
         ELSE IF req.jUploadId = NoId \/ req.jKey = NoKey
                 \/ req.jPartNumber = 0
         THEN ApiError(400, b, {})
         ELSE ApiSuccess(NoId, 0, NoEtag, b, {"resumeMultipartUpload"})
    ELSE IF req.action = "upload-part" THEN HandleUploadPart(req, b, bound)
    ELSE IF req.action = "complete"
    THEN IF ParseRequestDataThrows(req) THEN ApiError(500, b, {})
         ELSE IF req.jUploadId = NoId \/ req.jKey = NoKey
                 \/ req.jParts.kind = "missing"
         THEN ApiError(400, b, {})
         ELSE IF R2CompleteOk(b, req.jKey, req.jUploadId, req.jParts)
         THEN ApiSuccess(NoId, 0, req.jUploadId,
                         R2Complete(b, req.jKey, req.jUploadId),
                         {"resumeMultipartUpload", "complete"})
         ELSE ApiError(400, b, {"resumeMultipartUpload", "complete"})
    ELSE ApiError(400, b, {})

\* export const PUT
HandlePUT(req, b, bound) == HandleUploadPart(req, b, bound)

\* an abort that ends every open session under the key
HandleDELETE_AbortsKey(req, b, bound) ==
    IF ~bound THEN ApiError(500, b, {})
    ELSE IF req.action # "abort" THEN ApiError(400, b, {})
    ELSE IF req.qUploadId = NoId \/ req.qKey = NoKey
    THEN ApiError(400, b, {})
    ELSE IF R2AbortOk(b, req.qKey, req.qUploadId)
    THEN ApiSuccess(NoId, 0, NoEtag,
                    [b EXCEPT !.sessions =
                        [u \in SessionIds |->
                            IF SessionOpen(b, req.qKey, u)
                            THEN R2Abort(b, req.qKey, u).sessions[u]
                            ELSE b.sessions[u]]],
                    {"resumeMultipartUpload", "abort"})
    ELSE ApiError(400, b, {"resumeMultipartUpload", "abort"})
\* an abort that also removes the object under the key
HandleDELETE_DeletesObject(req, b, bound) ==
    IF ~bound THEN ApiError(500, b, {})
    ELSE IF req.action # "abort" THEN ApiError(400, b, {})
    ELSE IF req.qUploadId = NoId \/ req.qKey = NoKey
    THEN ApiError(400, b, {})
    ELSE IF R2AbortOk(b, req.qKey, req.qUploadId)
    THEN ApiSuccess(NoId, 0, NoEtag,
                    [R2Abort(b, req.qKey, req.qUploadId)
                        EXCEPT !.objects[req.qKey] = NoId],
                    {"resumeMultipartUpload", "abort"})
    ELSE ApiError(400, b, {"resumeMultipartUpload", "abort"})
\* export const DELETE
HandleDELETE(req, b, bound) ==
    IF ~bound THEN ApiError(500, b, {})
    ELSE IF req.action # "abort" THEN ApiError(400, b, {})
    ELSE IF req.qUploadId = NoId \/ req.qKey = NoKey
    THEN ApiError(400, b, {})
    ELSE IF R2AbortOk(b, req.qKey, req.qUploadId)
    THEN ApiSuccess(NoId, 0, NoEtag, R2Abort(b, req.qKey, req.qUploadId),
                    {"resumeMultipartUpload", "abort"})
    ELSE ApiError(400, b, {"resumeMultipartUpload", "abort"})

\* the route: one exported handler per HTTP method
Handle(req, b, bound) ==
    IF req.method = "POST" THEN HandlePOST(req, b, bound)
    ELSE IF req.method = "PUT" THEN HandlePUT(req, b, bound)
    ELSE HandleDELETE(req, b, bound)

\* ------------------------------------------------------------------------
\* State
\* ------------------------------------------------------------------------
VARIABLES
    \* server side
    bucket,             \* the object storage: sessions, parts, objects
    bucketBound,        \* locals.runtime.env.CLOUD_FILES is bound
    lastReq,            \* the request the endpoint handled last
    lastRes,            \* its response (status, uploadId) and the bucket
                        \* calls it made
    \* browser side (one FileUploader)
    loggedIn,           \* the browser holds a valid login cookie
    file,               \* file.size of the selected file
    uploadMode,         \* "simple" or "multipart"
    replacingKey,       \* a file is being replaced (replacingKey is set)
    pc,                 \* position of the upload task
    depth,              \* synchronous call depth of the upload functions
    i,                  \* loop index of the part loop
    retries,            \* attempts left for the current part
    createResponse,     \* status of the create response, 0 = none
    uploadPartResponse, \* status of the last upload-part response, 0 = null
    uploadId,           \* createJson.uploadId, NoId = undefined
    partsData,          \* the (partNumber, etag) entries collected
    isUploading,
    progress,           \* <<k, n>> stands for (k / n) * 100
    alerts,             \* the outcomes reported to the user, in order
    \* what the browser has put on the wire
    createSent,         \* number of create requests
    partSends,          \* per part number, number of upload-part requests
    blobs,              \* per part number, the byte range <<start, end>> sent
    completeSent,       \* the bodies of the complete requests
    uploadSent,         \* number of POSTs to /api/upload
    acked,              \* per part number, etag of its success response
    inFlight,           \* part numbers with an attempt that timed out at
                        \* the browser and has not reached the endpoint yet
    waits,              \* the waits (ms) between the attempts of the
                        \* current part, in order
    \* the asset endpoints (upload, list-assets, asset, check-asset,
    \* rename-asset, delete-asset)
    assets,             \* per key, the content stored under it, 0 = none
    running,            \* per handler, the rename-asset request it works on
    lastAsset,          \* the asset request answered last, with its
                        \* response status and the bucket calls made for it
    \* the key of an upload
    keyIn,              \* replacingKey, customKey, folderPath,
                        \* currentFolder and file.name of the upload form
    keyOut              \* the key uploadFileMultipart checked and the key
                        \* it sent

serverVars == <<bucket, bucketBound, lastReq, lastRes>>
clientVars == <<loggedIn, file, uploadMode, replacingKey, pc, depth, i,
                retries, createResponse, uploadPartResponse, uploadId,
                partsData, isUploading, progress, alerts>>
wireVars == <<createSent, partSends, blobs, completeSent, uploadSent, acked,
              inFlight, waits>>
assetVars == <<assets, running, lastAsset>>
keyVars == <<keyIn, keyOut>>
vars == <<serverVars, clientVars, wireVars, assetVars, keyVars>>

\* the key the uploader computed for the file
ClientKey == "k1"

NoReq ==
    [method |-> "", auth |-> FALSE, action |-> "",
     qUploadId |-> NoId, qPartNumber |-> NoParam, qKey |-> NoKey,
     ctype |-> "other",
     fUploadId |-> NoId, fPartNumber |-> NoParam, fKey |-> NoKey,
     jsonOk |-> FALSE, jKey |-> NoKey, jUploadId |-> NoId,
     jPartNumber |-> 0, jParts |-> NoPartsField,
     hasBody |-> FALSE]
NoRes == [status |-> 0, calls |-> {}, uploadId |-> NoId]

\* the keys of the objects the asset endpoints are called with
AssetKeys == {"a", "b"}
\* a header, cookie or token that is not there (null)
NoValue == "<none>"
NoHeader == [scheme |-> NoValue, token |-> NoValue]
NoAssetReq ==
    [endpoint |-> "", cookie |-> NoValue, authorization |-> NoHeader,
     secret |-> FALSE, key |-> NoKey, newKey |-> NoKey, content |-> 0]
NoAsset == [req |-> NoAssetReq, status |-> 0, calls |-> {}]
\* the rename-asset handlers that run at the same time
Handlers == {1, 2}
Idle == [pc |-> "idle", oldKey |-> NoKey, newKey |-> NoKey, data |-> 0]
\* the upload form as it is after mount, and no key computed yet
EmptyForm ==
    [replacingKey |-> <<>>, customKey |-> <<>>, folderPath |-> <<>>,
     currentFolder |-> <<>>, name |-> <<"n">>]
NoKeys == [checked |-> <<>>, sent |-> <<>>, done |-> FALSE]

\* no asset request was made and no handler runs
AssetsInit ==
    /\ assets = [k \in AssetKeys |-> 0]
    /\ running = [h \in Handlers |-> Idle]
    /\ lastAsset = NoAsset

UploaderInit ==
    /\ bucket = EmptyBucket
    /\ bucketBound \in BOOLEAN
    /\ lastReq = NoReq
    /\ lastRes = NoRes
    /\ loggedIn \in BOOLEAN
    /\ file \in FileSizes
    /\ uploadMode \in {"simple", "multipart"}
    /\ replacingKey \in BOOLEAN
    /\ pc = "idle"
    /\ depth = 0
    /\ i = 0
    /\ retries = 0
    /\ createResponse = 0
    /\ uploadPartResponse = 0
    /\ uploadId = NoId
    /\ partsData = <<>>
    /\ isUploading = FALSE
    /\ progress = <<0, 1>>
    /\ alerts = <<>>
    /\ createSent = 0
    /\ partSends = [n \in PartNos |-> 0]
    /\ blobs = [n \in PartNos |-> <<0, 0>>]
    /\ completeSent = <<>>
    /\ uploadSent = 0
    /\ acked = [n \in PartNos |-> NoEtag]
    /\ inFlight = {}
    /\ waits = <<>>

Init ==
    /\ UploaderInit
    /\ AssetsInit
    /\ keyIn = EmptyForm
    /\ keyOut = NoKeys

\* ------------------------------------------------------------------------
\* The network between browser and endpoint
\* ------------------------------------------------------------------------
\* statuses a reverse proxy answers with, without reaching the endpoint
ProxyStatuses == {408, 413, 429, 503}
\* deliver: the endpoint handles the request and its response arrives;
\* proxy:   a proxy answers (not JSON) and the endpoint sees nothing;
\* lost:    fetch throws and the endpoint sees nothing;
\* timeout: the endpoint handles the request but fetch throws (the 25 s
\*          abort signal, or a broken connection)
NetOutcomes ==
    [kind : {"deliver", "lost", "timeout"}, status : {0}]
        \cup [kind : {"proxy"}, status : ProxyStatuses]
\* late: the 25 s abort signal of an upload-part fetch fires while the
\*       request is on its way; the endpoint handles it later
PartNetOutcomes == NetOutcomes \cup [kind : {"late"}, status : {0}]

Reaches(net) == net.kind \in {"deliver", "timeout"}
FetchThrows(net) == net.kind \in {"lost", "timeout", "late"}
\* response.ok
Ok(status) == status >= 200 /\ status <= 299

\* the endpoint's state after a fetch of req with outcome net
ServerStep(req, net) ==
    LET res == Handle(req, bucket, bucketBound)
    IN  IF Reaches(net)
        THEN /\ bucket' = res.bucket
             /\ lastReq' = req
             /\ lastRes' = [status |-> res.status, calls |-> res.calls,
                         uploadId |-> res.uploadId]
             /\ UNCHANGED bucketBound
        ELSE UNCHANGED serverVars

\* ------------------------------------------------------------------------
\* The uploader: shared steps
\* ------------------------------------------------------------------------
\* Math.floor in place of Math.ceil
TotalParts_Floor(size) == size \div CHUNK_SIZE
\* Math.ceil(file.size / CHUNK_SIZE)
TotalParts(size) == Ceil(size, CHUNK_SIZE)
\* file.slice(start, end).size for part index k (0-based)
PartStart(k) == CHUNK_SIZE * k
\* the end of the range without the Math.min against file.size
PartEnd_NoClamp(size, k) == PartStart(k) + CHUNK_SIZE
PartEnd(size, k) == Min(size, PartStart(k) + CHUNK_SIZE)
PartSize(size, k) == Max(0, PartEnd(size, k) - PartStart(k))

\* catch: alert("Upload failed. Please try again."), then finally
Fail ==
    /\ pc' = "done"
    /\ alerts' = Append(alerts, "failure")
    /\ isUploading' = FALSE
    /\ progress' = <<0, 1>>

\* alert("File uploaded successfully!"), then finally
Succeed ==
    /\ pc' = "done"
    /\ alerts' = Append(alerts, "success")
    /\ isUploading' = FALSE
    /\ progress' = <<0, 1>>

\* one upload function calls the other without an await in between: the
\* call stack grows, and beyond the engine's limit the call throws a
\* RangeError, which a try block around it may or may not catch
\* (d is the depth of the calling function)
CallOther(target, d) ==
    IF d + 1 > MaxDepth
    THEN /\ pc' = "done"
         /\ depth' = 0
         /\ \/ alerts' = Append(alerts, "failure")
            \/ alerts' = alerts
    ELSE /\ pc' = target
         /\ depth' = d + 1
         /\ alerts' = alerts

\* click on Upload: uploadFile is uploadFileSimple or uploadFileMultipart
StartUpload ==
    /\ pc = "idle"
    /\ pc' = uploadMode
    /\ depth' = 1
    /\ UNCHANGED <<serverVars, wireVars, loggedIn, file, uploadMode,
                   replacingKey, i, retries, createResponse,
                   uploadPartResponse, uploadId, partsData, isUploading, progress, alerts>>

\* ------------------------------------------------------------------------
\* uploadFileSimple
\* ------------------------------------------------------------------------
\* entry: a file above the threshold goes to uploadFileMultipart
SimpleEntry ==
    /\ pc = "simple"
    /\ IF file > FILE_SIZE_THRESHOLD
       THEN /\ CallOther("multipart", depth)
            /\ isUploading' = FALSE
            /\ progress' = <<0, 1>>
       ELSE /\ pc' = IF replacingKey THEN "simple_post" ELSE "simple_check"
            /\ isUploading' = (replacingKey \/ isUploading)
            /\ progress' = IF replacingKey THEN <<0, 1>> ELSE progress
            /\ UNCHANGED <<depth, alerts>>
    /\ UNCHANGED <<serverVars, wireVars, loggedIn, file, uploadMode,
                   replacingKey, i, retries, createResponse,
                   uploadPartResponse, uploadId, partsData>>

\* the check-asset request and the replace confirmation
SimpleCheck ==
    /\ pc = "simple_check"
    /\ depth' = 1
    /\ \E answer \in {"absent", "replace", "cancel", "error"} :
          IF answer = "cancel"
          THEN /\ pc' = "done"
               /\ UNCHANGED <<isUploading, progress>>
          ELSE /\ pc' = "simple_post"
               /\ isUploading' = TRUE
               /\ progress' = <<0, 1>>
    /\ UNCHANGED <<serverVars, wireVars, loggedIn, file, uploadMode,
                   replacingKey, i, retries, createResponse,
                   uploadPartResponse, uploadId, partsData, alerts>>

\* statuses of /api/upload; 0 stands for a fetch that throws
UploadStatuses == {0, 200, 400, 401, 413, 500}

\* POST /api/upload and what follows
SimplePost ==
    /\ pc = "simple_post"
    /\ uploadSent' = uploadSent + 1
    /\ \E status \in UploadStatuses :
          /\ status = 413 => uploadSent < Max413
          /\ IF status = 413
             THEN /\ pc' = "multipart"
                  /\ depth' = 2
                  /\ isUploading' = FALSE
                  /\ progress' = <<0, 1>>
                  /\ alerts' = alerts
             ELSE /\ depth' = 1
                  /\ IF Ok(status) THEN Succeed ELSE Fail
    /\ UNCHANGED <<serverVars, createSent, partSends, blobs, completeSent,
                   acked, inFlight, waits, loggedIn, file, uploadMode,
                   replacingKey, i,
                   retries, createResponse, uploadPartResponse, uploadId,
                   partsData>>

\* ------------------------------------------------------------------------
\* uploadFileMultipart
\* ------------------------------------------------------------------------
\* number.toString() for a non-negative integer
RECURSIVE ToDec(_)
ToDec(n) ==
    IF n < 10 THEN <<DigitChars[n + 1]>>
    ELSE ToDec(n \div 10) \o <<DigitChars[(n % 10) + 1]>>

\* the create request
CreateReq ==
    [NoReq EXCEPT !.method = "POST", !.auth = loggedIn, !.action = "create",
                  !.ctype = "json", !.jsonOk = TRUE, !.jKey = ClientKey,
                  !.hasBody = TRUE]

\* the upload-part request of part number n: PUT with the parameters in
\* the URL and the blob as body; an undefined uploadId is written as the
\* text "undefined"
UploadPartReq(n) ==
    [NoReq EXCEPT !.method = "PUT", !.auth = loggedIn,
                  !.action = "upload-part",
                  !.qUploadId = IF uploadId = NoId THEN UndefinedStr
                                ELSE uploadId,
                  !.qKey = ClientKey,
                  !.qPartNumber = ToDec(n),
                  !.hasBody = TRUE]

\* the complete request; JSON.stringify leaves an undefined uploadId out
CompleteReq ==
    [NoReq EXCEPT !.method = "POST", !.auth = loggedIn,
                  !.action = "complete",
                  !.ctype = "json", !.jsonOk = TRUE, !.jKey = ClientKey,
                  !.jUploadId = uploadId,
                  !.jParts = PartsList(partsData),
                  !.hasBody = TRUE]

\* after the existence check: setIsUploading(true), then either the file is
\* below the chunk size and goes to uploadFileSimple, or the upload starts
\* (d is the depth of uploadFileMultipart at that point)
Plan(d) ==
    /\ IF file < CHUNK_SIZE
       THEN /\ CallOther("simple", d)
            /\ isUploading' = FALSE
       ELSE /\ pc' = "mp_create"
            /\ depth' = d
            /\ isUploading' = TRUE
            /\ alerts' = alerts
    /\ progress' = <<0, 1>>

\* entry: with a replacing key there is no existence check
MultipartEntry ==
    /\ pc = "multipart"
    /\ IF replacingKey
       THEN Plan(depth)
       ELSE /\ pc' = "mp_check"
            /\ UNCHANGED <<depth, isUploading, progress, alerts>>
    /\ UNCHANGED <<serverVars, wireVars, loggedIn, file, uploadMode,
                   replacingKey, i, retries, createResponse,
                   uploadPartResponse, uploadId, partsData>>

\* the check-asset request and the replace confirmation
MultipartCheck ==
    /\ pc = "mp_check"
    /\ \E answer \in {"absent", "replace", "cancel", "error"} :
          IF answer = "cancel"
          THEN /\ pc' = "done"
               /\ depth' = 1
               /\ UNCHANGED <<isUploading, progress, alerts>>
          ELSE Plan(1)
    /\ UNCHANGED <<serverVars, wireVars, loggedIn, file, uploadMode,
                   replacingKey, i, retries, createResponse,
                   uploadPartResponse, uploadId, partsData>>

\* Step 1: the create request; createResponse.ok is not looked at, the
\* uploadId is whatever the JSON body holds
MultipartCreate ==
    /\ pc = "mp_create"
    /\ createSent' = createSent + 1
    /\ depth' = 1
    /\ \E net \in NetOutcomes :
          LET res == Handle(CreateReq, bucket, bucketBound)
          IN  /\ ServerStep(CreateReq, net)
              /\ createResponse' = IF net.kind = "deliver" THEN res.status
                                    ELSE net.status
              /\ IF net.kind = "deliver"
                 THEN /\ uploadId' = res.uploadId
                      /\ pc' = "mp_part"
                      /\ i' = 0
                      /\ retries' = RETRIES
                      /\ uploadPartResponse' = 0
                      /\ UNCHANGED <<alerts, isUploading, progress>>
                 ELSE \* fetch throws, or the body is not JSON
                      /\ Fail
                      /\ UNCHANGED <<uploadId, i, retries,
                                     uploadPartResponse>>
    /\ waits' = <<>>
    /\ UNCHANGED <<partSends, blobs, completeSent, uploadSent, acked,
                   inFlight, loggedIn, file, uploadMode, replacingKey,
                   partsData>>

\* a push that reads the etag from a field the response does not have
PushPart_NoEtag(pd, partNumber, etag) ==
    Append(pd, [partNumber |-> partNumber, etag |-> NoEtag])
\* partsData.push({ partNumber, etag })
PushPart(pd, partNumber, etag) ==
    Append(pd, [partNumber |-> partNumber, etag |-> etag])

\* a loop that stops one part early
LoopContinues_OffByOne(k, size) == k < TotalParts(size) - 1
\* the condition of the part loop: for (let i = 0; i < totalParts; i++)
LoopContinues(k, size) == k < TotalParts(size)

\* a progress computed from the loop index without the + 1
ProgressAfter_NoIncrement(k, size) == <<k, TotalParts(size)>>
\* setProgress(((i + 1) / totalParts) * 100), as <<numerator, denominator>>
ProgressAfter(k, size) == <<k + 1, TotalParts(size)>>

\* the wait before the next attempt, in ms, with the attempts left after
\* the decrement: setTimeout(resolve, 1000 * (4 - retries))
Backoff(left) == 1000 * (4 - left)

\* the statuses that make the try block of the retry loop throw: 413, and
\* every status below 500 other than 408 and 429
ThrowsInTry(status) ==
    \/ status = 413
    \/ (status # 408 /\ status # 429 /\ status < 500)

\* Step 2, one pass of the retry loop of part i + 1: the size check of the
\* blob, one fetch, and what the loop does with the result (the keys of the
\* model are short, so the 15000 character limit on the URL never applies)
MultipartUploadPart ==
    /\ pc = "mp_part"
    /\ depth' = 1
    /\ LET partNumber == i + 1
           isLastPart == (i = TotalParts(file) - 1)
           req        == UploadPartReq(partNumber)
       IN  IF ~isLastPart /\ PartSize(file, i) < CHUNK_SIZE
           THEN \* "This should not happen with proper chunking"
                /\ Fail
                /\ UNCHANGED <<serverVars, wireVars, i, retries,
                               uploadPartResponse, partsData>>
           ELSE
           /\ partSends' = [partSends EXCEPT ![partNumber] = @ + 1]
           /\ blobs' = [blobs EXCEPT ![partNumber] =
                            <<PartStart(i), PartEnd(file, i)>>]
           /\ \E net \in PartNetOutcomes :
                LET res    == Handle(req, bucket, bucketBound)
                    status == IF net.kind = "deliver" THEN res.status
                              ELSE net.status
                IN  /\ ServerStep(req, net)
                    /\ net.kind = "late"
                          => Cardinality(inFlight) < MaxLate
                    /\ inFlight' = IF net.kind = "late"
                                   THEN inFlight \cup {partNumber}
                                   ELSE inFlight
                    /\ IF ~FetchThrows(net) /\ Ok(status)
                       THEN \* break; read the etag; push; setProgress
                            /\ partsData' =
                                  PushPart(partsData, partNumber, res.etag)
                            /\ acked' = [acked EXCEPT ![partNumber] = res.etag]
                            /\ progress' = ProgressAfter(i, file)
                            /\ i' = i + 1
                            /\ retries' = RETRIES
                            /\ uploadPartResponse' = 0
                            /\ pc' = IF LoopContinues(i + 1, file)
                                     THEN "mp_part" ELSE "mp_complete"
                            /\ waits' = <<>>
                            /\ UNCHANGED <<alerts, isUploading>>
                       ELSE
                       /\ uploadPartResponse' =
                             IF FetchThrows(net) THEN uploadPartResponse
                             ELSE status
                       /\ retries' = retries - 1
                       /\ waits' = IF retries - 1 > 0
                                   THEN Append(waits, Backoff(retries - 1))
                                   ELSE waits
                       /\ UNCHANGED <<partsData, acked, i>>
                       /\ IF FetchThrows(net) \/ ThrowsInTry(status)
                          THEN \* the catch block of the loop
                               IF retries - 1 = 0
                               THEN Fail
                               ELSE UNCHANGED <<pc, alerts, isUploading,
                                                progress>>
                          ELSE \* a retryable status; when no attempt is
                               \* left the loop ends and the check after
                               \* it throws
                               IF retries - 1 > 0
                               THEN UNCHANGED <<pc, alerts, isUploading,
                                                progress>>
                               ELSE Fail
    /\ UNCHANGED <<createSent, completeSent, uploadSent, loggedIn, file,
                   uploadMode, replacingKey, createResponse, uploadId>>

\* a complete step that sends an abort request when complete fails
MultipartComplete_AbortsOnFailure ==
    /\ pc = "mp_complete"
    /\ depth' = 1
    /\ completeSent' = Append(completeSent,
          [uploadId |-> uploadId, key |-> ClientKey, parts |-> partsData])
    /\ \E net \in NetOutcomes :
          LET res    == Handle(CompleteReq, bucket, bucketBound)
              status == IF net.kind = "deliver" THEN res.status
                        ELSE net.status
              after  == IF Reaches(net) THEN res.bucket ELSE bucket
              abort  == [NoReq EXCEPT !.method = "DELETE", !.auth = loggedIn,
                                      !.action = "abort",
                                      !.qUploadId = uploadId,
                                      !.qKey = ClientKey]
              ares   == Handle(abort, after, bucketBound)
          IN  IF ~FetchThrows(net) /\ Ok(status)
              THEN ServerStep(CompleteReq, net) /\ Succeed
              ELSE /\ bucket' = ares.bucket
                   /\ lastReq' = abort
                   /\ lastRes' = [status |-> ares.status,
                                  calls |-> ares.calls,
                                  uploadId |-> ares.uploadId]
                   /\ UNCHANGED bucketBound
                   /\ Fail
    /\ UNCHANGED <<createSent, partSends, blobs, uploadSent, acked,
                   inFlight, waits, loggedIn, file, uploadMode,
                   replacingKey, i, retries, createResponse,
                   uploadPartResponse, uploadId, partsData>>
\* a complete step that starts the upload over when complete fails
MultipartComplete_StartsOver ==
    /\ pc = "mp_complete"
    /\ depth' = 1
    /\ completeSent' = Append(completeSent,
          [uploadId |-> uploadId, key |-> ClientKey, parts |-> partsData])
    /\ \E net \in NetOutcomes :
          LET res    == Handle(CompleteReq, bucket, bucketBound)
              status == IF net.kind = "deliver" THEN res.status
                        ELSE net.status
          IN  /\ ServerStep(CompleteReq, net)
              /\ IF ~FetchThrows(net) /\ Ok(status) THEN Succeed
                 ELSE /\ pc' = "mp_create"
                      /\ UNCHANGED <<alerts, isUploading, progress>>
    /\ UNCHANGED <<createSent, partSends, blobs, uploadSent, acked,
                   inFlight, waits, loggedIn, file, uploadMode,
                   replacingKey, i, retries, createResponse,
                   uploadPartResponse, uploadId, partsData>>
\* Step 3: the complete request
MultipartComplete ==
    /\ pc = "mp_complete"
    /\ depth' = 1
    /\ completeSent' = Append(completeSent,
          [uploadId |-> uploadId, key |-> ClientKey, parts |-> partsData])
    /\ \E net \in NetOutcomes :
          LET res    == Handle(CompleteReq, bucket, bucketBound)
              status == IF net.kind = "deliver" THEN res.status
                        ELSE net.status
          IN  /\ ServerStep(CompleteReq, net)
              /\ IF ~FetchThrows(net) /\ Ok(status) THEN Succeed ELSE Fail
    /\ UNCHANGED <<createSent, partSends, blobs, uploadSent, acked,
                   inFlight, waits, loggedIn, file, uploadMode,
                   replacingKey, i, retries, createResponse,
                   uploadPartResponse, uploadId, partsData>>

\* an attempt that timed out at the browser reaches the endpoint, which
\* handles it like any other upload-part request; nobody reads the response
LateArrival ==
    \E n \in inFlight :
        LET req == UploadPartReq(n)
            res == Handle(req, bucket, bucketBound)
        IN  /\ bucket' = res.bucket
            /\ lastReq' = req
            /\ lastRes' = [status |-> res.status, calls |-> res.calls,
                         uploadId |-> res.uploadId]
            /\ inFlight' = inFlight \ {n}
            /\ UNCHANGED <<bucketBound, clientVars, createSent, partSends,
                           blobs, completeSent, uploadSent, acked, waits>>

\* ------------------------------------------------------------------------
\* One upload of one file
\* ------------------------------------------------------------------------
Next ==
    \/ StartUpload /\ UNCHANGED <<assetVars, keyVars>>
    \/ SimpleEntry /\ UNCHANGED <<assetVars, keyVars>>
    \/ SimpleCheck /\ UNCHANGED <<assetVars, keyVars>>
    \/ SimplePost /\ UNCHANGED <<assetVars, keyVars>>
    \/ MultipartEntry /\ UNCHANGED <<assetVars, keyVars>>
    \/ MultipartCheck /\ UNCHANGED <<assetVars, keyVars>>
    \/ MultipartCreate /\ UNCHANGED <<assetVars, keyVars>>
    \/ MultipartUploadPart /\ UNCHANGED <<assetVars, keyVars>>
    \/ MultipartComplete /\ UNCHANGED <<assetVars, keyVars>>
    \/ LateArrival /\ UNCHANGED <<assetVars, keyVars>>

Spec == Init /\ [][Next]_vars

\* every request gets its response or its exception, and the task runs on
FairSpec == Spec /\ WF_vars(Next)

\* ------------------------------------------------------------------------
\* The same file uploaded again after a failure
\* ------------------------------------------------------------------------
\* after the failure alert the file is still selected (setSelectedFile(null)
\* runs on success only) and the button is enabled again; the next click
\* calls the upload function anew, with fresh local variables
UploadAgain ==
    /\ pc = "done"
    /\ alerts # <<>>
    /\ alerts[Len(alerts)] = "failure"
    /\ Len(alerts) < MaxUploads
    /\ pc' = "idle"
    /\ depth' = 0
    /\ i' = 0
    /\ retries' = 0
    /\ createResponse' = 0
    /\ uploadPartResponse' = 0
    /\ uploadId' = NoId
    /\ partsData' = <<>>
    /\ UNCHANGED <<serverVars, wireVars, loggedIn, file, uploadMode,
                   replacingKey, isUploading, progress, alerts>>

\* a logged-in user, the bucket bound, a file of two parts or a small file
ResumeInit ==
    /\ Init
    /\ loggedIn
    /\ bucketBound
    /\ file \in {FILE_SIZE_THRESHOLD, 2 * CHUNK_SIZE}

\* the steps of the uploads; every attempt that timed out is taken as lost
ResumeNext ==
    \/ StartUpload /\ UNCHANGED <<assetVars, keyVars>>
    \/ SimpleEntry /\ UNCHANGED <<assetVars, keyVars>>
    \/ SimpleCheck /\ UNCHANGED <<assetVars, keyVars>>
    \/ SimplePost /\ UNCHANGED <<assetVars, keyVars>>
    \/ MultipartEntry /\ UNCHANGED <<assetVars, keyVars>>
    \/ MultipartCheck /\ UNCHANGED <<assetVars, keyVars>>
    \/ MultipartCreate /\ UNCHANGED <<assetVars, keyVars>>
    \/ MultipartUploadPart /\ UNCHANGED <<assetVars, keyVars>>
    \/ MultipartComplete /\ UNCHANGED <<assetVars, keyVars>>
    \/ UploadAgain /\ UNCHANGED <<assetVars, keyVars>>

ResumeSpec == ResumeInit /\ [][ResumeNext]_vars

\* ------------------------------------------------------------------------
\* The endpoint under arbitrary callers
\* ------------------------------------------------------------------------
KeyValues == {NoKey} \cup Keys
PartNumberStrings ==
    {NoParam, <<"1">>, <<"2">>, <<"0">>, <<"-", "1">>, <<"a", "b", "c">>,
     <<"1", ".", "5">>, <<"2", "x">>}
Entry(n, e) == [partNumber |-> n, etag |-> e]
PartsValues ==
    {NoPartsField, [kind |-> "other", list |-> <<>>], PartsList(<<>>),
     PartsList(<<Entry(1, 1)>>), PartsList(<<Entry(2, 2)>>),
     PartsList(<<Entry(1, 2)>>),
     PartsList(<<Entry(1, 1), Entry(2, 2)>>),
     PartsList(<<Entry(2, 2), Entry(1, 1)>>),
     PartsList(<<Entry(1, 1), Entry(1, 1)>>)}

\* POST requests with a JSON body
JsonRequest(a, act, k, u, pn, ps) ==
    [NoReq EXCEPT !.method = "POST", !.auth = a, !.action = act,
                  !.ctype = "json", !.jsonOk = TRUE,
                  !.jKey = k, !.jUploadId = u, !.jPartNumber = pn,
                  !.jParts = ps, !.hasBody = TRUE]

CreateRequests ==
    {JsonRequest(a, "create", k, NoId, 0, NoPartsField) :
        a \in BOOLEAN, k \in KeyValues}

CompleteRequests ==
    {JsonRequest(TRUE, "complete", "k1", u, 0, ps) :
        u \in {NoId} \cup SessionIds, ps \in PartsValues}
    \cup
    {JsonRequest(TRUE, "complete", k, u, 0, ps) :
        k \in {NoKey, "k2"}, u \in {NoId, 1},
        ps \in {NoPartsField, PartsList(<<Entry(1, 1)>>)}}
    \cup {JsonRequest(FALSE, "complete", "k1", 1, 0,
                      PartsList(<<Entry(1, 1)>>))}

GetUploadUrlRequests ==
    {JsonRequest(a, "get-upload-url", "k1", u, 1, NoPartsField) :
        a \in BOOLEAN, u \in {NoId, 1}}

\* POST requests without an action or with an unknown one, and create and
\* complete requests whose body is not JSON
OtherPostRequests ==
    {[JsonRequest(TRUE, act, "k1", 1, 1, PartsList(<<>>))
         EXCEPT !.ctype = c, !.jsonOk = FALSE] :
        act \in {"", "bogus", "create", "complete"},
        c \in {"json", "other"}}

\* upload-part requests with the parameters in the URL
QueryPartRequest(m, a, act, u, pn, k, hb) ==
    [NoReq EXCEPT !.method = m, !.auth = a, !.action = act,
                  !.qUploadId = u, !.qPartNumber = pn, !.qKey = k,
                  !.hasBody = hb]

QueryPartRequests ==
    {QueryPartRequest("PUT", TRUE, "upload-part", u, pn, k, TRUE) :
        u \in {NoId} \cup SessionIds,
        pn \in {NoParam, <<"1">>, <<"2">>}, k \in KeyValues}
    \cup
    {QueryPartRequest("PUT", TRUE, "upload-part", u, pn, "k1", TRUE) :
        u \in {1, UndefinedStr}, pn \in PartNumberStrings}
    \cup
    {QueryPartRequest("PUT", TRUE, act, 1, <<"1">>, "k1", hb) :
        act \in {"upload-part", "bogus", ""}, hb \in BOOLEAN}
    \cup
    {QueryPartRequest("POST", a, "upload-part", 1, <<"1">>, "k1", TRUE) :
        a \in BOOLEAN}
    \cup
    {QueryPartRequest("PUT", FALSE, "upload-part", 1, <<"1">>, "k1", TRUE)}

\* upload-part requests with a multipart/form-data body: the session id
\* and the key are in the URL, in the body, in both or in neither, the part
\* number is in the URL or, with the other fields, in the body
FormPartRequests ==
    {[NoReq EXCEPT !.method = "POST", !.auth = TRUE,
                   !.action = "upload-part", !.ctype = "form",
                   !.qUploadId = qu, !.qPartNumber = qpn, !.qKey = qk,
                   !.fUploadId = fu,
                   !.fPartNumber = IF qpn = NoParam THEN <<"1">> ELSE NoParam,
                   !.fKey = fk,
                   !.hasBody = TRUE] :
        qu \in {NoId, 1}, qpn \in {NoParam, <<"1">>}, qk \in {NoKey, "k1"},
        fu \in {NoId, 1}, fk \in KeyValues}

\* DELETE requests
DeleteRequests ==
    {[NoReq EXCEPT !.method = "DELETE", !.auth = a, !.action = "abort",
                   !.qUploadId = u, !.qKey = k] :
        a \in BOOLEAN, u \in {NoId} \cup SessionIds, k \in {NoKey, "k1"}}
    \cup
    {[NoReq EXCEPT !.method = "DELETE", !.auth = TRUE, !.action = "abort",
                   !.qUploadId = u, !.qKey = "k2"] :
        u \in {1, UndefinedStr}}
    \cup
    {[NoReq EXCEPT !.method = "DELETE", !.auth = TRUE, !.action = act,
                   !.qUploadId = 1, !.qKey = "k1"] :
        act \in {"", "create"}}

\* the endpoint handles one request; lastReq and lastRes show the exchange
\* until the connection is closed
ApiCall(req) ==
    LET res == Handle(req, bucket, bucketBound)
    IN  /\ lastReq = NoReq
        /\ res.bucket.nextEtag <= MaxEtag + 1
        /\ bucket' = res.bucket
        /\ lastReq' = req
        /\ lastRes' = [status |-> res.status, calls |-> res.calls,
                         uploadId |-> res.uploadId]
        /\ UNCHANGED <<bucketBound, clientVars, wireVars>>

ApiPost ==
    \E req \in CreateRequests \cup CompleteRequests
                  \cup GetUploadUrlRequests \cup OtherPostRequests :
        ApiCall(req)
ApiUploadPart ==
    \E req \in QueryPartRequests \cup FormPartRequests : ApiCall(req)
ApiDelete == \E req \in DeleteRequests : ApiCall(req)

\* the exchange is over
ApiClose ==
    /\ lastReq # NoReq
    /\ lastReq' = NoReq
    /\ lastRes' = NoRes
    /\ UNCHANGED <<bucket, bucketBound, clientVars, wireVars>>

\* no upload runs in the browser
ApiInit ==
    /\ Init
    /\ ~loggedIn
    /\ file = CHUNK_SIZE
    /\ uploadMode = "multipart"
    /\ ~replacingKey

ApiNext ==
    \/ ApiPost /\ UNCHANGED <<assetVars, keyVars>>
    \/ ApiUploadPart /\ UNCHANGED <<assetVars, keyVars>>
    \/ ApiDelete /\ UNCHANGED <<assetVars, keyVars>>
    \/ ApiClose /\ UNCHANGED <<assetVars, keyVars>>

ApiSpec == ApiInit /\ [][ApiNext]_vars

\* ------------------------------------------------------------------------
\* Authentication (utils/auth.ts)
\* ------------------------------------------------------------------------
\* the tokens a request may carry: one that verifies, one past its exp, one
\* with a wrong signature, one that verifies but has no site_id
Tokens == {"valid", "expired", "forged", "nosite"}

\* null and the empty string are falsy
Falsy(v) == v \in {NoValue, ""}

\* getCookie(request, JWT_COOKIE): the cookie's value, null without it
getCookie(req) == req.cookie

\* jwtVerify throws for a wrong signature and for a token past its exp
jwtVerifyThrows(token) == token \in {"forged", "expired"}
\* payload.site_id is set
HasSiteId(token) == token = "valid"

\* getAccessTokenFromRequest: every exception ends in the catch, which
\* returns null
getAccessTokenFromRequest(req) ==
    LET cookie   == getCookie(req)
        jwtToken == IF ~Falsy(cookie) THEN cookie
                    ELSE IF req.authorization.scheme = "Bearer "
                         THEN req.authorization.token
                         ELSE NoValue
    IN  IF Falsy(jwtToken) THEN NoValue
        ELSE IF ~req.secret THEN NoValue
        ELSE IF jwtVerifyThrows(jwtToken) THEN NoValue
        ELSE IF HasSiteId(jwtToken) THEN "authenticated"
        ELSE NoValue

isAuthenticated(req) == getAccessTokenFromRequest(req) # NoValue

\* ------------------------------------------------------------------------
\* The asset endpoints; each answers [status, calls, objects]
\* ------------------------------------------------------------------------
Answer(status, calls, objs) ==
    [status |-> status, calls |-> calls, objects |-> objs]

\* POST /api/upload; req.key stands for the filename computed from the
\* form's key, folder and file name, req.content = 0 for a missing file
Upload(req, objs, bound) ==
    IF ~isAuthenticated(req) THEN Answer(401, {}, objs)
    ELSE IF ~bound THEN Answer(500, {}, objs)
    ELSE IF req.content = 0 THEN Answer(400, {}, objs)
    ELSE Answer(200, {"put"}, [objs EXCEPT ![req.key] = req.content])

\* GET /api/list-assets
ListAssets(req, objs, bound) ==
    IF ~isAuthenticated(req) THEN Answer(401, {}, objs)
    ELSE IF ~bound THEN Answer(500, {}, objs)
    ELSE Answer(200, {"list"}, objs)

\* GET /api/asset: no authentication and no check of the binding; a call
\* on an unbound bucket throws and the framework answers 500
Asset(req, objs, bound) ==
    IF req.key = NoKey THEN Answer(400, {}, objs)
    ELSE IF ~bound THEN Answer(500, {}, objs)
    ELSE IF objs[req.key] = 0 THEN Answer(404, {"get"}, objs)
    ELSE Answer(200, {"get"}, objs)

\* GET /api/check-asset: no authentication
CheckAsset(req, objs, bound) ==
    IF ~bound THEN Answer(500, {}, objs)
    ELSE IF req.key = NoKey THEN Answer(400, {}, objs)
    ELSE Answer(200, {"head"}, objs)

\* DELETE /api/delete-asset
DeleteAsset(req, objs, bound) ==
    IF ~isAuthenticated(req) THEN Answer(401, {}, objs)
    ELSE IF ~bound THEN Answer(500, {}, objs)
    ELSE IF req.key = NoKey THEN Answer(400, {}, objs)
    ELSE Answer(200, {"delete"}, [objs EXCEPT ![req.key] = 0])

\* POST /api/rename-asset up to its first call on the bucket: 0 stands for
\* "goes on to bucket.get(oldKey)"
RenameAssetChecks(req, bound) ==
    IF ~isAuthenticated(req) THEN 401
    ELSE IF ~bound THEN 500
    ELSE IF req.key = NoKey \/ req.newKey = NoKey THEN 400
    ELSE IF req.key = req.newKey THEN 400
    ELSE 0

\* the headers of the requests: every cookie with and without a valid
\* Bearer token, every Authorization header without a usable cookie, and
\* an environment without JWT_SECRET
Cookies == {NoValue, ""} \cup Tokens
BearerValid == [scheme |-> "Bearer ", token |-> "valid"]
Authorizations ==
    {NoHeader}
        \cup [scheme : {"Bearer "}, token : Tokens \cup {""}]
        \cup [scheme : {"Basic "}, token : {"valid"}]
Headers ==
    {[NoAssetReq EXCEPT !.cookie = c, !.authorization = a, !.secret = TRUE] :
        c \in Cookies, a \in {NoHeader, BearerValid}}
      \cup {[NoAssetReq EXCEPT !.cookie = c, !.authorization = a,
                               !.secret = TRUE] :
              c \in {NoValue, ""}, a \in Authorizations}
      \cup {[NoAssetReq EXCEPT !.cookie = "valid"],
            [NoAssetReq EXCEPT !.authorization = BearerValid]}
\* a request of a logged-in browser
Browser(endpoint) ==
    [NoAssetReq EXCEPT !.endpoint = endpoint, !.cookie = "valid",
                       !.secret = TRUE]
\* the requests to an endpoint: every header case with one key (or pair of
\* keys, or file), and the keys, pairs and files a logged-in browser sends
AssetRequests(endpoint) ==
    {[hd EXCEPT !.endpoint = endpoint, !.key = "a",
                !.newKey = IF endpoint = "rename-asset" THEN "b" ELSE NoKey,
                !.content = IF endpoint = "upload" THEN 1 ELSE 0] :
        hd \in Headers}
      \cup {[Browser(endpoint) EXCEPT !.key = k, !.newKey = n,
                                      !.content = d] :
              k \in IF endpoint = "list-assets" THEN {NoKey}
                    ELSE IF endpoint = "upload" THEN AssetKeys
                    ELSE AssetKeys \cup {NoKey},
              n \in IF endpoint = "rename-asset"
                    THEN AssetKeys \cup {NoKey} ELSE {NoKey},
              d \in IF endpoint = "upload" THEN 0..MaxContent ELSE {0}}

\* an endpoint that answers within one step
AssetCall(req, res) ==
    /\ lastAsset = NoAsset
    /\ assets' = res.objects
    /\ lastAsset' = [req |-> req, status |-> res.status, calls |-> res.calls]
    /\ UNCHANGED <<running, keyVars, serverVars, clientVars, wireVars>>

CallUpload ==
    \E req \in AssetRequests("upload") :
        AssetCall(req, Upload(req, assets, bucketBound))
CallListAssets ==
    \E req \in AssetRequests("list-assets") :
        AssetCall(req, ListAssets(req, assets, bucketBound))
CallAsset ==
    \E req \in AssetRequests("asset") :
        AssetCall(req, Asset(req, assets, bucketBound))
CallCheckAsset ==
    \E req \in AssetRequests("check-asset") :
        AssetCall(req, CheckAsset(req, assets, bucketBound))
CallDeleteAsset ==
    \E req \in AssetRequests("delete-asset") :
        AssetCall(req, DeleteAsset(req, assets, bucketBound))

\* rename-asset answers; handler h is free again
RenameAnswers(h, req, status, calls) ==
    /\ lastAsset = NoAsset
    /\ lastAsset' = [req |-> req, status |-> status, calls |-> calls]
    /\ running' = [running EXCEPT ![h] = Idle]

\* the request of the rename handler h works on
RenameReq(h) ==
    [Browser("rename-asset") EXCEPT !.key = running[h].oldKey,
                                    !.newKey = running[h].newKey]

\* rename-asset: authentication, binding, body
RenameAssetStart(h) ==
    /\ running[h].pc = "idle"
    /\ \E req \in AssetRequests("rename-asset") :
          LET status == RenameAssetChecks(req, bucketBound)
          IN  IF status # 0
              THEN RenameAnswers(h, req, status, {})
              ELSE /\ running' = [running EXCEPT ![h] =
                        [pc |-> "get_old", oldKey |-> req.key,
                         newKey |-> req.newKey, data |-> 0]]
                   /\ UNCHANGED lastAsset
    /\ UNCHANGED <<assets, keyVars, serverVars, clientVars, wireVars>>

\* bucket.get(oldKey): the object read is the one stored at this moment
RenameAssetGetOld(h) ==
    /\ running[h].pc = "get_old"
    /\ IF assets[running[h].oldKey] = 0
       THEN RenameAnswers(h, RenameReq(h), 404, {"get"})
       ELSE /\ running' = [running EXCEPT ![h].pc = "get_new",
                              ![h].data = assets[running[h].oldKey]]
            /\ UNCHANGED lastAsset
    /\ UNCHANGED <<assets, keyVars, serverVars, clientVars, wireVars>>

\* bucket.get(newKey)
RenameAssetGetNew(h) ==
    /\ running[h].pc = "get_new"
    /\ IF assets[running[h].newKey] # 0
       THEN RenameAnswers(h, RenameReq(h), 409, {"get"})
       ELSE /\ running' = [running EXCEPT ![h].pc = "put"]
            /\ UNCHANGED lastAsset
    /\ UNCHANGED <<assets, keyVars, serverVars, clientVars, wireVars>>

\* oldObject.arrayBuffer() and bucket.put(newKey, data)
RenameAssetPut(h) ==
    /\ running[h].pc = "put"
    /\ assets' = [assets EXCEPT ![running[h].newKey] = running[h].data]
    /\ running' = [running EXCEPT ![h].pc = "delete"]
    /\ UNCHANGED <<lastAsset, keyVars, serverVars, clientVars, wireVars>>

\* bucket.delete(oldKey) and the success response
RenameAssetDelete(h) ==
    /\ running[h].pc = "delete"
    /\ assets' = [assets EXCEPT ![running[h].oldKey] = 0]
    /\ RenameAnswers(h, RenameReq(h), 200, {"get", "put", "delete"})
    /\ UNCHANGED <<keyVars, serverVars, clientVars, wireVars>>

\* the exchange is over
AssetClose ==
    /\ lastAsset # NoAsset
    /\ lastAsset' = NoAsset
    /\ UNCHANGED <<assets, running, keyVars, serverVars, clientVars,
                   wireVars>>

\* no upload runs in the browser, the bucket holds no object
AssetInit ==
    /\ Init
    /\ ~loggedIn
    /\ file = CHUNK_SIZE
    /\ uploadMode = "multipart"
    /\ ~replacingKey

AssetNext ==
    \/ CallUpload
    \/ CallListAssets
    \/ CallAsset
    \/ CallCheckAsset
    \/ CallDeleteAsset
    \/ \E h \in Handlers : RenameAssetStart(h)
    \/ \E h \in Handlers : RenameAssetGetOld(h)
    \/ \E h \in Handlers : RenameAssetGetNew(h)
    \/ \E h \in Handlers : RenameAssetPut(h)
    \/ \E h \in Handlers : RenameAssetDelete(h)
    \/ AssetClose

AssetSpec == AssetInit /\ [][AssetNext]_vars

\* ------------------------------------------------------------------------
\* The key of a multipart upload; strings are sequences of characters
\* ------------------------------------------------------------------------
\* s.includes(c)
Includes(s, c) == \E j \in 1..Len(s) : s[j] = c

\* s.trim(), with the blank as the only white space
RECURSIVE Trim(_)
Trim(s) ==
    IF s = <<>> THEN s
    ELSE IF Head(s) = " " THEN Trim(Tail(s))
    ELSE IF s[Len(s)] = " " THEN Trim(SubSeq(s, 1, Len(s) - 1))
    ELSE s

\* s.split(c).pop(): what follows the last c, all of s without a c
SplitPop(s, c) ==
    LET at == {j \in 1..Len(s) : s[j] = c}
        last == IF at = {} THEN 0 ELSE CHOOSE j \in at : \A k \in at : k <= j
    IN  SubSeq(s, last + 1, Len(s))

\* the custom key already has an extension
hasExtension(key) ==
    /\ Includes(key, ".")
    /\ Len(SplitPop(key, ".")) > 0
    /\ Len(SplitPop(key, ".")) < Len(key)

keyWithExt(key, fileExtension) ==
    IF ~hasExtension(key) /\ fileExtension # <<>>
    THEN key \o <<".">> \o fileExtension
    ELSE key

\* `${folder}/${name}`
InFolder(folder, name) == folder \o <<"/">> \o name

\* generateRandomFilename: "#" stands for `${timestamp}-${random}`
generateRandomFilename(originalName) ==
    LET ext == SplitPop(originalName, ".")
    IN  IF ext # <<>> THEN <<"#", ".">> \o ext ELSE <<"#">>

\* folderPath.trim() || currentFolder
targetFolder(form) ==
    IF Trim(form.folderPath) # <<>> THEN Trim(form.folderPath)
    ELSE form.currentFolder

\* the key before the existence check
finalKey(form) ==
    LET fileExtension == SplitPop(form.name, ".")
        customKeyTrimmed == Trim(form.customKey)
        folder == targetFolder(form)
    IN  IF form.replacingKey # <<>> THEN form.replacingKey
        ELSE IF customKeyTrimmed # <<>>
        THEN IF folder # <<>>
             THEN InFolder(folder, keyWithExt(customKeyTrimmed, fileExtension))
             ELSE keyWithExt(customKeyTrimmed, fileExtension)
        ELSE IF folder # <<>> THEN InFolder(folder, form.name)
        ELSE form.name

\* the key computed inside the try block, sent with create, every part and
\* complete
key(form) ==
    LET fileExtension == SplitPop(form.name, ".")
        customKeyTrimmed == Trim(form.customKey)
        folder == targetFolder(form)
        withExt == keyWithExt(customKeyTrimmed, fileExtension)
        fileName == IF Trim(form.folderPath) # <<>>
                    THEN generateRandomFilename(form.name)
                    ELSE form.name
    IN  IF form.replacingKey # <<>> THEN form.replacingKey
        ELSE IF customKeyTrimmed # <<>>
        THEN IF folder # <<>> /\ ~Includes(withExt, "/")
             THEN InFolder(folder, withExt)
             ELSE withExt
        ELSE IF folder # <<>> THEN InFolder(folder, fileName)
        ELSE fileName

\* the strings of at most n characters over an alphabet
StringsUpTo(n, alphabet) == UNION {[1..k -> alphabet] : k \in 0..n}

\* what the user can have in the form when Upload is clicked
Forms ==
    [replacingKey : {<<>>, <<"r">>},
     customKey : StringsUpTo(MaxKeyLen, {"a", ".", "/", " "}),
     folderPath : {<<>>, <<" ">>, <<"f">>},
     currentFolder : {<<>>, <<"c">>},
     name : {<<"n">>, <<"n", ".", "e">>}]

\* uploadFileMultipart up to the create request: the existence check (only
\* with a key and without a replacing key) and the key that is sent
MultipartKeys ==
    /\ ~keyOut.done
    /\ keyOut' = [checked |-> IF finalKey(keyIn) # <<>>
                                  /\ keyIn.replacingKey = <<>>
                              THEN finalKey(keyIn) ELSE <<>>,
                  sent |-> key(keyIn),
                  done |-> TRUE]
    /\ UNCHANGED <<keyIn, assetVars, serverVars, clientVars, wireVars>>

\* any form, no request made so far
KeyInit ==
    /\ UploaderInit
    /\ ~loggedIn
    /\ bucketBound
    /\ file = CHUNK_SIZE
    /\ uploadMode = "multipart"
    /\ ~replacingKey
    /\ AssetsInit
    /\ keyIn \in Forms
    /\ keyOut = NoKeys

KeyNext == MultipartKeys

KeySpec == KeyInit /\ [][KeyNext]_vars

\* ------------------------------------------------------------------------
\* Properties
\* ------------------------------------------------------------------------
Last(q) == q[Len(q)]
UploadFailed == pc = "done" /\ alerts # <<>> /\ Last(alerts) = "failure"
NoPartSent == \A n \in PartNos : partSends[n] = 0
\* a 4xx status other than 408 (request timeout) and 429 (rate limited)
TerminalClientError(status) ==
    status >= 400 /\ status <= 499 /\ status # 408 /\ status # 429

\* the four actions of the endpoint under the methods that serve them
IsCreate(req) == req.method = "POST" /\ req.action = "create"
IsUploadPart(req) ==
    req.method \in {"PUT", "POST"} /\ req.action = "upload-part"
IsComplete(req) == req.method = "POST" /\ req.action = "complete"
IsAbort(req) == req.method = "DELETE" /\ req.action = "abort"

\* C1: every create, upload-part, complete and abort request of an
\* unauthenticated caller is answered with 401 and makes no call on the
\* bucket (looked at where the bucket is bound, so that a call is possible).
C1_UnauthenticatedRejected ==
    (/\ IsCreate(lastReq) \/ IsUploadPart(lastReq) \/ IsComplete(lastReq)
           \/ IsAbort(lastReq)
     /\ ~lastReq.auth
     /\ bucketBound)
        => (lastRes.status = 401 /\ lastRes.calls = {})

\* C2: once an upload-part response has a 4xx status other than 408 and
\* 429 the upload has ended in failure: the part is not sent again, and no
\* later part and no complete request follows (looked at in uploads whose
\* create request succeeded).
C2_TerminalErrorEndsUpload ==
    (Ok(createResponse) /\ TerminalClientError(uploadPartResponse))
        => UploadFailed

\* C3: no part is sent more than 3 times, and when the 3 attempts of a part
\* have all failed the upload has failed, no later part has been sent and
\* no complete request has been sent.
C3_AtMostThreeAttempts ==
    \A n \in PartNos :
        /\ partSends[n] <= 3
        /\ (partSends[n] = 3 /\ acked[n] = NoEtag)
              => /\ UploadFailed
                 /\ completeSent = <<>>
                 /\ \A m \in PartNos : m > n => partSends[m] = 0

\* a later part has used up its three attempts on retryable failures
C3_Witness ==
    /\ partSends[2] = 3
    /\ acked[2] = NoEtag
    /\ acked[1] # NoEtag
    /\ uploadPartResponse = 503
    /\ pc = "done"

\* C4: every upload that was started eventually ends.
C4_UploadEnds == <>(pc = "done")

\* C5: a file below the chunk size gets no create request, and once it is
\* in uploadFileSimple that function goes on to its existence check and
\* its POST to /api/upload.
C5_SmallFileSingleShot ==
    [][(file < 5 * 1024 * 1024 /\ pc = "simple")
          => (pc' \in {"simple_check", "simple_post"} /\ createSent' = 0)]_vars

\* C6: when the create request got a non-success response, no upload-part
\* and no complete request is sent, and the upload ends in failure.
C6_CreateFailureFatal ==
    (createSent > 0 /\ createResponse # 0 /\ ~Ok(createResponse))
        => /\ NoPartSent
           /\ completeSent = <<>>
           /\ pc = "done" => UploadFailed

\* C7: the parts list of every complete request holds the part numbers
\* 1..ceil(file.size / 5 MiB), each once, in increasing order.
C7_CompletePartNumbers ==
    \A j \in 1..Len(completeSent) :
        LET parts == completeSent[j].parts
        IN  /\ Len(parts) * (5 * 1024 * 1024) >= file
            /\ (Len(parts) - 1) * (5 * 1024 * 1024) < file
            /\ \A k \in 1..Len(parts) : parts[k].partNumber = k

\* a complete request for a file of three parts
C7_Witness ==
    /\ completeSent # <<>>
    /\ Len(completeSent[1].parts) = 3
    /\ file = 12 * MiB

\* C8: a part that failed once or twice and then succeeded has exactly one
\* entry in the parts list of the complete request, with the etag of its
\* success response.
C8_RetriedPartOneEntry ==
    \A j \in 1..Len(completeSent) :
        \A n \in PartNos :
            (partSends[n] > 1 /\ acked[n] # NoEtag)
                => LET parts == completeSent[j].parts
                       at    == {k \in 1..Len(parts) :
                                    parts[k].partNumber = n}
                   IN  /\ Cardinality(at) = 1
                       /\ \A k \in at : parts[k].etag = acked[n]

\* part 1 succeeded on its third attempt, part 2 on its second
C8_Witness ==
    /\ completeSent # <<>>
    /\ partSends[1] = 3
    /\ partSends[2] = 2
    /\ acked[1] # NoEtag
    /\ acked[2] # NoEtag

\* C9: at most one complete request is sent, and only after every part
\* 1..ceil(file.size / 5 MiB) got a success response.
C9_CompleteAfterAllParts ==
    /\ Len(completeSent) <= 1
    /\ completeSent # <<>>
          => \A n \in PartNos :
                (n - 1) * (5 * 1024 * 1024) < file => acked[n] # NoEtag

\* the complete request of a three-part upload has been sent
C9_Witness ==
    /\ Len(completeSent) = 1
    /\ file = 10 * MiB + 1
    /\ \A n \in 1..3 : acked[n] # NoEtag

RECURSIVE SumLengths(_, _)
SumLengths(ranges, n) ==
    IF n = 0 THEN 0
    ELSE (ranges[n][2] - ranges[n][1]) + SumLengths(ranges, n - 1)

\* C10: the part with index i covers [i * chunk, min(size, (i + 1) * chunk)),
\* every non-final part has the chunk size, the final part has between 1
\* byte and the chunk size, and the lengths of all parts sum to the size.
C10_PartRanges ==
    /\ \A n \in PartNos :
          partSends[n] > 0
             => /\ blobs[n][1] = (n - 1) * CHUNK_SIZE
                /\ blobs[n][2] = Min(file, n * CHUNK_SIZE)
                /\ blobs[n][2] - blobs[n][1] >= 1
                /\ blobs[n][2] - blobs[n][1] <= CHUNK_SIZE
                /\ n * CHUNK_SIZE < file
                      => blobs[n][2] - blobs[n][1] = CHUNK_SIZE
    /\ completeSent # <<>>
          => SumLengths(blobs, Len(completeSent[1].parts)) = file

\* 12 MiB went out as parts of 5, 5 and 2 MiB
C10_Witness ==
    /\ completeSent # <<>>
    /\ file = 12 * MiB
    /\ blobs[3] = <<10 * MiB, 12 * MiB>>

\* C11: the object under a key changes only in a step that handles a complete
\* request answered with success, by the session of that request, which was
\* open before and is completed after, and only under the key of that
\* request; create, upload-part and abort requests leave every object as it
\* was; every successful complete writes the object, and a completed session
\* stays completed, so that one session writes once.
C11_ObjectWrittenOnceByComplete ==
    [][/\ (IsCreate(lastReq') \/ IsUploadPart(lastReq') \/ IsAbort(lastReq'))
            => bucket'.objects = bucket.objects
       /\ bucket'.objects # bucket.objects
            => /\ IsComplete(lastReq')
               /\ lastRes'.status = 200
               /\ SessionOpen(bucket, lastReq'.jKey, lastReq'.jUploadId)
               /\ bucket'.sessions[lastReq'.jUploadId].state = "completed"
               /\ \A k \in Keys :
                     k # lastReq'.jKey
                        => bucket'.objects[k] = bucket.objects[k]
       /\ (IsComplete(lastReq') /\ lastRes'.status = 200)
            => bucket'.objects # bucket.objects
       /\ \A u \in SessionIds :
             bucket.sessions[u].state = "completed"
                => bucket'.sessions[u].state = "completed"]_vars

\* the object written by one session has been replaced by the successful
\* complete of a second session under the same key
C11_Witness ==
    /\ IsComplete(lastReq)
    /\ lastRes.status = 200
    /\ bucket.objects["k1"] = 2
    /\ bucket.sessions[1].state = "completed"
    /\ bucket.sessions[1].key = "k1"

\* the session id names no open session: it was never created, or the
\* session is completed or aborted
Dead(b, u) == u \in SessionIds => b.sessions[u].state # "open"
BackendCalled(res) == res.calls \cap {"uploadPart", "complete"} # {}

\* C12: an upload-part or complete request for a session that was never
\* created, or is completed or aborted, is not answered with success and
\* leaves the bucket (sessions, parts, objects) as it was, and where the
\* handler called the backend the answer is a 400; an abort answered with
\* success leaves the session aborted, and an aborted session stays aborted
\* without parts.
C12_DeadSessionFails ==
    [][/\ ((\/ (/\ IsUploadPart(lastReq')
                 /\ Dead(bucket, lastReq'.qUploadId)
                 /\ Dead(bucket, lastReq'.fUploadId))
             \/ (IsComplete(lastReq') /\ Dead(bucket, lastReq'.jUploadId)))
            => /\ lastRes'.status # 200
               /\ bucket' = bucket
               /\ BackendCalled(lastRes') => lastRes'.status = 400)
       /\ (IsAbort(lastReq') /\ lastRes'.status = 200)
            => bucket'.sessions[lastReq'.qUploadId].state = "aborted"
       /\ \A u \in SessionIds :
             bucket.sessions[u].state = "aborted"
                => /\ bucket'.sessions[u].state = "aborted"
                   /\ bucket'.sessions[u].parts = NoParts]_vars

\* an upload-part request for an aborted session went to the backend and
\* came back as 400, while another session holds a part
C12_Witness ==
    /\ IsUploadPart(lastReq)
    /\ lastReq.qUploadId = 1
    /\ bucket.sessions[1].state = "aborted"
    /\ "uploadPart" \in lastRes.calls
    /\ lastRes.status = 400
    /\ bucket.sessions[2].parts[1] # NoEtag

\* C13: an upload-part request of an authenticated caller whose partNumber
\* is "0", "-1", "abc", "1.5" or "2x" (no integer >= 1) is answered with 400
\* and makes no uploadPart call on the bucket.
C13_BadPartNumberRejected ==
    (/\ IsUploadPart(lastReq)
     /\ lastReq.auth
     /\ bucketBound
     /\ lastReq.qPartNumber \in
           {<<"0">>, <<"-", "1">>, <<"a", "b", "c">>, <<"1", ".", "5">>,
            <<"2", "x">>})
        => (lastRes.status = 400 /\ "uploadPart" \notin lastRes.calls)

\* a required parameter of the request is missing or malformed
Malformed(req) ==
    \/ req.action = ""
    \/ IsCreate(req) /\ (ParseRequestDataThrows(req) \/ req.jKey = NoKey)
    \/ IsComplete(req)
          /\ (\/ ParseRequestDataThrows(req)
              \/ req.jKey = NoKey
              \/ req.jUploadId = NoId
              \/ req.jParts.kind # "list")
    \/ IsUploadPart(req)
          /\ (\/ (req.qUploadId = NoId /\ req.fUploadId = NoId)
              \/ (req.qPartNumber = NoParam /\ req.fPartNumber = NoParam)
              \/ (req.qKey = NoKey /\ req.fKey = NoKey))
    \/ IsAbort(req) /\ (req.qUploadId = NoId \/ req.qKey = NoKey)

\* C14: a request of an authenticated caller, bucket bound, that has no
\* action, or is a create, upload-part, complete or abort request without
\* its key, session id, part number or parts list, with a parts value that
\* is not a list, or (create, complete) with a body that is not JSON, is
\* answered with 400 and makes no call on the bucket.
C14_MalformedRejected ==
    (/\ lastReq.method \in {"POST", "PUT", "DELETE"}
     /\ lastReq.auth
     /\ bucketBound
     /\ Malformed(lastReq))
        => (lastRes.status = 400 /\ lastRes.calls = {})

\* the session id, the key and the part number travel as fields of a
\* multipart/form-data body and the query string has none of them
BodyEncoded(req) ==
    /\ IsUploadPart(req)
    /\ req.ctype = "form"
    /\ req.hasBody
    /\ req.qUploadId = NoId /\ req.qPartNumber = NoParam /\ req.qKey = NoKey
    /\ req.fUploadId # NoId /\ req.fPartNumber # NoParam /\ req.fKey # NoKey

\* C15: an upload-part request of an authenticated caller that carries the
\* session id, the key and the part number "1" as body fields, for a session
\* that is open under that key, is answered with success, and the bucket
\* was called with uploadPart and holds the part.
C15_BodyEncodingAccepted ==
    [][(/\ BodyEncoded(lastReq')
        /\ lastReq'.auth
        /\ bucketBound
        /\ lastReq'.fPartNumber = <<"1">>
        /\ SessionOpen(bucket, lastReq'.fKey, lastReq'.fUploadId))
          => (/\ lastRes'.status = 200
              /\ "uploadPart" \in lastRes'.calls
              /\ bucket'.sessions[lastReq'.fUploadId].parts[1] # NoEtag)]_vars

\* the key or the session id is given in the query string and in the body,
\* with different values
Diverges(req) ==
    \/ (req.qKey # NoKey /\ req.fKey # NoKey /\ req.qKey # req.fKey)
    \/ (/\ req.qUploadId # NoId
        /\ req.fUploadId # NoId
        /\ req.qUploadId # req.fUploadId)

\* C16: an upload-part request whose query string and body name different
\* keys or different session ids does not get a part stored: it is not
\* answered with success.
C16_NoSilentDivergence ==
    (IsUploadPart(lastReq) /\ Diverges(lastReq)) => lastRes.status # 200

\* C17: with the bucket not bound and the caller logged in, every request
\* the endpoint handles is answered with 500 without a call on the bucket,
\* no session exists, and a request that got the 500 is not sent again: no
\* further create after the create response, no further upload-part after
\* an upload-part response.
C17_UnboundBucketFatal ==
    [][(~bucketBound /\ loggedIn)
          => /\ lastReq' # NoReq
                  => (lastRes'.status = 500 /\ lastRes'.calls = {})
             /\ bucket' = EmptyBucket
             /\ createResponse = 500 => createSent' = createSent
             /\ uploadPartResponse = 500 => partSends' = partSends]_vars

\* C20: whenever the uploader is about to send the complete request, every
\* entry of its parts list carries the etag the bucket holds for that part
\* number in the session of the upload.
C20_EtagsMatchAtComplete ==
    pc = "mp_complete"
        => /\ uploadId \in SessionIds
           /\ \A j \in 1..Len(partsData) :
                 bucket.sessions[uploadId].parts[partsData[j].partNumber]
                    = partsData[j].etag

\* C18: a complete request that the bucket rejects is answered with 400 and
\* leaves every object as it was, and the upload has then ended in failure;
\* an upload that has ended sends nothing more (no create, no upload-part,
\* no complete, no POST to /api/upload), and no abort request is ever sent.
C18_RejectedCompleteIsTerminal ==
    [][/\ (/\ completeSent' # completeSent
           /\ IsComplete(lastReq')
           /\ "complete" \in lastRes'.calls
           /\ lastRes'.status # 200)
            => /\ lastRes'.status = 400
               /\ bucket'.objects = bucket.objects
               /\ UploadFailed'
       /\ pc = "done"
            => /\ pc' = "done"
               /\ createSent' = createSent
               /\ partSends' = partSends
               /\ completeSent' = completeSent
               /\ uploadSent' = uploadSent
       /\ ~IsAbort(lastReq')]_vars

\* the bucket has rejected the complete request of an upload whose parts
\* were all acknowledged, and the upload has failed without an object
C18_Witness ==
    /\ IsComplete(lastReq)
    /\ "complete" \in lastRes.calls
    /\ lastRes.status = 400
    /\ Len(completeSent) = 1
    /\ UploadFailed
    /\ createSent = 1
    /\ bucket.objects[ClientKey] = NoId

\* the session id a request names: the id of the response for create, the
\* id of the body for complete, the id of the query string otherwise
NamedSession(req, res) ==
    IF IsCreate(req) THEN res.uploadId
    ELSE IF IsComplete(req) THEN req.jUploadId
    ELSE req.qUploadId

\* the complete request for a session that holds part 1 and nothing else
CompleteOfPartOne(b, u) ==
    JsonRequest(TRUE, "complete", b.sessions[u].key, u, 0,
                PartsList(<<Entry(1, b.sessions[u].parts[1])>>))

\* C19: a create request answered with success returns an id that no
\* earlier session has, and its session starts open and without parts, so
\* two creates for one key give two ids; a request changes no session but
\* the one it names, whatever was done to the others; and every open
\* session that holds part 1 alone can be completed, whatever state the
\* other sessions are in.
C19_SessionsIndependent ==
    [][/\ (IsCreate(lastReq') /\ lastRes'.status = 200)
            => /\ lastRes'.uploadId \in SessionIds
               /\ bucket.sessions[lastRes'.uploadId].state = "absent"
               /\ bucket'.sessions[lastRes'.uploadId]
                     = [key |-> lastReq'.jKey, state |-> "open",
                        parts |-> NoParts]
       /\ \A u \in SessionIds :
             bucket'.sessions[u] # bucket.sessions[u]
                => u = NamedSession(lastReq', lastRes')
       /\ \A u \in SessionIds :
             (/\ bucket'.sessions[u].state = "open"
              /\ bucket'.sessions[u].parts[1] # NoEtag
              /\ \A n \in PartNos \ {1} :
                    bucket'.sessions[u].parts[n] = NoEtag)
                => Handle(CompleteOfPartOne(bucket', u), bucket',
                          bucketBound).status = 200]_vars

\* two sessions were created for one key and each got a part; the first is
\* completed, the second is still open with its part
C19_Witness ==
    /\ bucket.sessions[1].key = "k1"
    /\ bucket.sessions[2].key = "k1"
    /\ bucket.sessions[1].state = "completed"
    /\ bucket.sessions[2].state = "open"
    /\ bucket.sessions[2].parts[1] # NoEtag
    /\ IsComplete(lastReq)
    /\ lastReq.jUploadId = 1
    /\ lastRes.status = 200

\* C21: once parts of the file are acknowledged, an upload of the same file
\* started again goes on in the same session and sends only what is not
\* acknowledged yet: no further create request is sent, and no part that was
\* acknowledged is sent again.
C21_UploadResumes ==
    [][/\ (\E n \in PartNos : acked[n] # NoEtag)
            => createSent' = createSent
       /\ \A n \in PartNos :
             acked[n] # NoEtag => partSends'[n] = partSends[n]]_vars

\* C22: a request of an authenticated caller, bucket bound, that is none of
\* create under POST, upload-part under PUT or POST, complete under POST and
\* abort under DELETE is answered with 400 and makes no call on the bucket.
C22_OnlyFourActions ==
    (/\ lastReq.method \in {"POST", "PUT", "DELETE"}
     /\ lastReq.auth
     /\ bucketBound
     /\ ~(\/ IsCreate(lastReq) \/ IsUploadPart(lastReq)
           \/ IsComplete(lastReq) \/ IsAbort(lastReq)))
        => (lastRes.status = 400 /\ lastRes.calls = {})

\* C23: the waits between the attempts of one part are 1 s, 2 s, 3 s in
\* this order: the j-th wait of a part lasts j seconds, after a retryable
\* response as after an exception.
C23_BackoffSequence ==
    \A j \in 1..Len(waits) : waits[j] = 1000 * j

\* a multipart upload ends with the success alert in this step
MultipartSucceeds ==
    /\ pc = "mp_complete"
    /\ pc' = "done"
    /\ Last(alerts') = "success"

\* C24 as stated: no step lowers progress, progress stays within 0..100,
\* and the step that ends a multipart upload in success leaves progress at
\* 100.
C24_ProgressMonotone ==
    [][/\ progress[1] * progress'[2] <= progress'[1] * progress[2]
       /\ progress'[1] >= 0
       /\ progress'[1] <= progress'[2]
       /\ MultipartSucceeds => progress'[1] = progress'[2]]_vars

\* C24, amended: progress stays within 0..100; no step lowers it while
\* isUploading holds before and after the step (the progress bar is drawn
\* only then); the step that acknowledges the k-th part sets it to
\* k / ceil(file.size / 5 MiB); and the step that ends a multipart upload
\* in success starts from 100 with isUploading set, and resets progress to
\* 0 together with isUploading.
C24_ProgressWhileUploading ==
    [][/\ progress'[1] >= 0
       /\ progress'[1] <= progress'[2]
       /\ (isUploading /\ isUploading')
            => progress[1] * progress'[2] <= progress'[1] * progress[2]
       /\ partsData' # partsData
            => /\ isUploading'
               /\ progress' = <<Len(partsData'),
                                Ceil(file, 5 * 1024 * 1024)>>
       /\ MultipartSucceeds
            => /\ isUploading
               /\ progress[1] = progress[2]
               /\ ~isUploading'
               /\ progress' = <<0, 1>>]_vars

\* a 12 MiB upload of three parts has ended in success
C24_Witness ==
    /\ pc = "done"
    /\ file = 12 * MiB
    /\ alerts = <<"success">>
    /\ Len(partsData) = 3
    /\ ~isUploading
    /\ progress = <<0, 1>>

AwaitsResponse ==
    pc \in {"simple_check", "simple_post", "mp_check", "mp_create",
            "mp_part", "mp_complete"}

\* C29: while an upload waits for a response, the Upload button is disabled
\* (disabled={isUploading}), so that a click cannot call uploadFile again and
\* start a second upload.
C29_ButtonDisabledWhileUploadRuns == AwaitsResponse => isUploading

\* the request carries a token that verifies under the configured secret,
\* is not expired and has a site_id, in the cookie or as a Bearer token
CarriesValidToken(req) ==
    /\ req.secret
    /\ \/ req.cookie = "valid"
       \/ req.authorization = [scheme |-> "Bearer ", token |-> "valid"]

\* the endpoints that call isAuthenticated
Guarded == {"upload", "list-assets", "rename-asset", "delete-asset"}

\* C26: an endpoint that asks isAuthenticated lets a request pass (answers
\* something other than 401) exactly when the request carries a valid token
\* in the cookie or in the Bearer header.
C26_AuthenticatedIffValidToken ==
    lastAsset.req.endpoint \in Guarded
        => (lastAsset.status # 401 <=> CarriesValidToken(lastAsset.req))

\* C27: with the bucket bound, every asset endpoint answers a request
\* without a valid token with 401 and calls nothing on the bucket.
C27_UnauthenticatedGets401 ==
    (lastAsset # NoAsset /\ bucketBound /\ ~CarriesValidToken(lastAsset.req))
        => (lastAsset.status = 401 /\ lastAsset.calls = {})

\* C28: rename-asset writes its copy only where no object is, and the
\* content its delete removes from oldKey is the content under newKey when
\* it answers success.
C28_RenameNeverReplacesOrLoses ==
    [][\A h \in Handlers :
         /\ (running[h].pc = "put" /\ running'[h].pc = "delete")
              => assets[running[h].newKey] = 0
         /\ (running[h].pc = "delete" /\ running'[h].pc = "idle")
              => (assets[running[h].oldKey] # 0
                    => assets'[running[h].newKey]
                          = assets[running[h].oldKey])]_vars

\* C30: the key uploadFileMultipart asks check-asset about is the key it
\* sends to create and complete.
C30_CheckedKeyIsSentKey ==
    (keyOut.done /\ keyOut.checked # <<>>) => keyOut.checked = keyOut.sent

====
